---- MODULE Spec2Model ----
(***************************************************************************)
(* The Flask gateway of src/app.py: the GradioAPIClient session manager    *)
(* (_connect, _ensure_connection, generate_response, get_lambda_data), the *)
(* require_api_key and handle_errors decorators and the routes /health,    *)
(* /generate, /ask, /compare, /sample and /batch.                          *)
(*                                                                         *)
(* Each worker (one per HTTP request in flight) walks through its handler; *)
(* the only shared state is the client object: client, last_connected and  *)
(* connection_lock.  The backend (gradio_client.Client and its predict) is *)
(* external: every construction and every call nondeterministically        *)
(* succeeds or raises.                                                     *)
(*                                                                         *)
(* Units: temperature and top_p are in tenths (0.7 is 7, 2.0 is 20);       *)
(* delays are in whole seconds.                                            *)
(***************************************************************************)
EXTENDS Integers, Sequences, FiniteSets, TLC

VARIABLES
    apiKey,          \* API_KEY (line 133): None or the configured key
    client,          \* gradio_client.client: "None" or "Client"
    last_connected,  \* gradio_client.last_connected: 0 (None) or a timestamp
    connection_lock, \* gradio_client.connection_lock: 0 (free) or its holder
    lastConnectOk,   \* history: result of the most recently completed _connect
    everConnected,   \* history: some _connect has succeeded
    pc,              \* per worker: position in its handler
    req,             \* per worker: the HTTP request received, before dispatch
    h,               \* per worker: the handler's locals
    args,            \* per worker: arguments of the client method in progress
    e,               \* per worker: the exception caught or propagating
    ret,             \* per worker: the client method's return value
    i,               \* per worker: loop index (/batch), call number (/compare)
    results,         \* per worker: /batch results list
    resp,            \* per worker: the HTTP response
    trace,           \* history: the client method's events after _ensure_connection
    sleeps           \* history: completed time.sleep calls of the request

shared == <<apiKey, client, last_connected, connection_lock,
            lastConnectOk, everConnected>>
vars == <<apiKey, client, last_connected, connection_lock,
          lastConnectOk, everConnected,
          pc, req, h, args, e, ret, i, results, resp, trace, sleeps>>

-----------------------------------------------------------------------------
(* Bounds of the model *)

NumWorkers == 2

(* Program constants *)

MaxBatch == 10
MinMaxLength == 1
MaxMaxLength == 2048
MaxTemperature == 20
MaxTopP == 10
DEFAULT_MAX_LENGTH == 512
DEFAULT_TEMPERATURE == 7
DEFAULT_TOP_P == 9
DefaultDelay == 1

AllWorkers == 1..NumWorkers

-----------------------------------------------------------------------------
(* Python values of a request: None, numbers, strings, lists *)

None == [none |-> TRUE]

Num(n) == [num |-> n]

Str(s) == [str |-> s]

List(s) == [list |-> s]

IsNumber(v) == "num" \in DOMAIN v

IsList(v) == "list" \in DOMAIN v

\* Python truth value: None, 0, "" and [] are false
Truthy(v) == v \notin {None, Num(0), Str(""), List(<<>>)}

\* a or b
Or(a, b) == IF Truthy(a) THEN a ELSE b

\* dict.get(key, default): the default only when the key is absent
Get(v, default) == IF v = None THEN default ELSE v

\* datetime.now(): a timestamp (1 or 2) that differs from the one stored before
Now == IF last_connected = 1 THEN 2 ELSE 1

\* the backend's answer to a call: a text determined by what it is asked
Answer(a) == <<"answer", a.user_input, a.endpoint>>

Exc(kind, at) == [kind |-> kind, at |-> at]

NoExc == Exc("none", 0)

\* what a remote call that reaches the backend may raise
BackendErrors == {"ConnectionError", "Exception"}


-----------------------------------------------------------------------------
(* The requests a caller may send *)

Keys == {None, Str("secret"), Str("wrong")}

P(ml, t, p) == [max_length |-> ml, temperature |-> t, top_p |-> p]

\* absent, the closed ranges' ends, just outside them, and a non-number
ParamInputs ==
    { P(None, None, None),
      P(Num(MinMaxLength), Num(0), Num(0)),
      P(Num(MaxMaxLength), Num(MaxTemperature), Num(MaxTopP)),
      P(Num(MinMaxLength - 1), Num(-1), Num(-1)),
      P(Num(MaxMaxLength + 1), Num(MaxTemperature + 1), Num(MaxTopP + 1)),
      P(Str("abc"), None, None) }

BatchParamInputs ==
    { P(None, None, None),
      P(Num(MaxMaxLength + 1), Num(MaxTemperature + 1), Num(MaxTopP + 1)) }

\* a query string holding a number's digits
NumStr(n) == [numstr |-> n]

AsQuery(v) == IF IsNumber(v) THEN NumStr(v.num) ELSE v

\* (user_input, question) of a JSON body, (question, q) of a query
TextInputs ==
    { <<None, None>>, <<Str(""), None>>, <<Str("q"), None>>,
      <<None, Str("q")>>, <<Str(""), Str("q")>> }

Questions(n) == [k \in 1..n |-> IF k % 2 = 1 THEN "qa" ELSE "qb"]

QuestionInputs ==
    {None, Str("notalist")} \cup {List(Questions(n)) : n \in 0..(MaxBatch + 1)}

DelayInputs == {None, Num(-1), Num(2)}

Request(route, key, data) == [route |-> route, key |-> key, data |-> data]

NoReq == Request("none", None, None)

GenerateRequests(route) ==
    { Request(route, k,
              [user_input |-> t[1], question |-> t[2],
               max_length |-> p.max_length, temperature |-> p.temperature,
               top_p |-> p.top_p, endpoint |-> ep]) :
        k \in Keys, t \in TextInputs, p \in ParamInputs,
        ep \in {None, Str("/generate_response_1")} }

AskRequests ==
    { Request("ask", k,
              [question |-> t[1], q |-> t[2],
               max_length |-> AsQuery(p.max_length),
               temperature |-> AsQuery(p.temperature),
               top_p |-> AsQuery(p.top_p)]) :
        k \in Keys, t \in TextInputs, p \in ParamInputs }

BatchRequests ==
    { Request("batch", k,
              [questions |-> q, delay |-> d,
               max_length |-> p.max_length, temperature |-> p.temperature,
               top_p |-> p.top_p]) :
        k \in Keys, q \in QuestionInputs, d \in DelayInputs,
        p \in BatchParamInputs }

SampleRequests == { Request("sample", k, None) : k \in Keys }

HealthRequests == { Request("health", None, None) }

Requests ==
    GenerateRequests("generate") \cup GenerateRequests("compare")
    \cup AskRequests \cup BatchRequests \cup SampleRequests \cup HealthRequests

\* the requests of the concurrent workers: the session manager's three callers
ThreadRequests ==
    { Request("generate", Str("secret"),
              [user_input |-> Str("q"), question |-> None, max_length |-> None,
               temperature |-> None, top_p |-> None, endpoint |-> None]),
      Request("sample", Str("secret"), None),
      Request("health", None, None) }

-----------------------------------------------------------------------------
(* Handler locals, call arguments, responses *)

Locals(route, user_input, p, endpoint, questions, delay) ==
    [route |-> route, user_input |-> user_input, max_length |-> p.max_length,
     temperature |-> p.temperature, top_p |-> p.top_p, endpoint |-> endpoint,
     questions |-> questions, delay |-> delay]

NoLocals == Locals("none", None, P(None, None, None), None, None, None)

Args(user_input, max_length, temperature, top_p, endpoint) ==
    [user_input |-> user_input, max_length |-> max_length,
     temperature |-> temperature, top_p |-> top_p, endpoint |-> endpoint]

NoArgs == Args(None, None, None, None, "")

Resp(code, status, body) == [code |-> code, status |-> status, body |-> body]

NoResp == Resp(0, "", None)

NoRet == <<>>

-----------------------------------------------------------------------------
Startup(key) ==
    /\ apiKey = key
    \* GradioAPIClient.__init__ (lines 46-51) has run _connect once
    /\ \E ok \in BOOLEAN :
        /\ client = IF ok THEN "Client" ELSE "None"
        /\ last_connected = IF ok THEN 1 ELSE 0
        /\ lastConnectOk = ok
        /\ everConnected = ok
    /\ connection_lock = 0
    /\ pc = [w \in AllWorkers |-> "idle"]
    /\ req = [w \in AllWorkers |-> NoReq]
    /\ h = [w \in AllWorkers |-> NoLocals]
    /\ args = [w \in AllWorkers |-> NoArgs]
    /\ e = [w \in AllWorkers |-> NoExc]
    /\ ret = [w \in AllWorkers |-> NoRet]
    /\ i = [w \in AllWorkers |-> 0]
    /\ results = [w \in AllWorkers |-> <<>>]
    /\ resp = [w \in AllWorkers |-> NoResp]
    /\ trace = [w \in AllWorkers |-> <<>>]
    /\ sleeps = [w \in AllWorkers |-> 0]

Init == \E key \in {None, Str("secret")} : Startup(key)

InitThreads == Startup(Str("secret"))

-----------------------------------------------------------------------------
(* GradioAPIClient *)

\* a _connect that leaves the old handle in place when it fails
ConnectHandleKept(ok) == IF ok THEN "Client" ELSE client

\* _connect, lines 57 and 63: the handle it leaves
ConnectHandle(ok) == IF ok THEN "Client" ELSE "None"

\* _connect, line 58: the timestamp it leaves
ConnectStamp(ok) == IF ok THEN Now ELSE last_connected

\* with self.connection_lock: entry blocks while another worker holds it
LockFree == connection_lock = 0

\* the body of _connect and the release of the lock
Connect(ok) ==
    /\ client' = ConnectHandle(ok)
    /\ last_connected' = ConnectStamp(ok)
    /\ connection_lock' = 0
    /\ lastConnectOk' = ok
    /\ everConnected' = (everConnected \/ ok)
    /\ UNCHANGED apiKey

\* self.client.predict(...): on None an AttributeError, else the backend's outcome
PredictOutcomes ==
    IF client = "None" THEN {"AttributeError"} ELSE {"ok"} \cup BackendErrors

\* the remote call of the method a route uses
CallPc(route) == IF route = "sample" THEN "lambda_call" ELSE "predict1"

\* where generate_response goes once its first call has raised (lines 97-100)
AfterFailure == "retry_lock"

\* a generate_response that repeats the call whatever the reconnect returned
AfterReconnectAlways(ok) == "predict2"

\* where generate_response goes once the reconnect has returned (lines 100, 113)
AfterReconnect(ok) == IF ok THEN "predict2" ELSE "raised"

\* a generate_response whose retry drops the result
RetryResultDropped(result) == NoRet

\* what generate_response returns from its retry (line 109)
RetryResult(result) == result

Event(w, ev) == trace' = [trace EXCEPT ![w] = Append(@, ev)]

\* _ensure_connection, line 68
EnsureConnection(w) ==
    /\ pc[w] = "ensure"
    /\ pc' = [pc EXCEPT ![w] = IF client = "None" THEN "ensure_lock"
                               ELSE CallPc(h[w].route)]
    /\ UNCHANGED <<shared, req, h, args, e, ret, i, results, resp, trace, sleeps>>

\* _connect, line 55: entering the lock
AcquireLock(w) ==
    /\ pc[w] \in {"ensure_lock", "retry_lock"}
    /\ LockFree
    /\ connection_lock' = w
    /\ pc' = [pc EXCEPT ![w] = IF pc[w] = "ensure_lock" THEN "ensure_connect"
                               ELSE "retry_connect"]
    /\ UNCHANGED <<apiKey, client, last_connected, lastConnectOk, everConnected,
                   req, h, args, e, ret, i, results, resp, trace, sleeps>>

\* _connect called by _ensure_connection, lines 69-70
EnsureConnect(w) ==
    /\ pc[w] = "ensure_connect"
    /\ \E ok \in BOOLEAN :
        /\ Connect(ok)
        /\ pc' = [pc EXCEPT ![w] = IF ok THEN CallPc(h[w].route) ELSE "raised"]
        /\ e' = [e EXCEPT ![w] = IF ok THEN @ ELSE Exc("ConnectionError", 0)]
    /\ UNCHANGED <<req, h, args, ret, i, results, resp, trace, sleeps>>

\* generate_response, lines 83-98: the first remote call
GenerateResponseCall(w) ==
    /\ pc[w] = "predict1"
    /\ \E o \in PredictOutcomes :
        /\ Event(w, IF o = "ok" THEN "call_ok" ELSE "call_fail")
        /\ pc' = [pc EXCEPT ![w] = IF o = "ok" THEN "returned" ELSE AfterFailure]
        /\ ret' = [ret EXCEPT ![w] = IF o = "ok" THEN Answer(args[w]) ELSE @]
        /\ e' = [e EXCEPT ![w] = IF o = "ok" THEN @ ELSE Exc(o, 1)]
    /\ UNCHANGED <<shared, req, h, args, i, results, resp, sleeps>>

\* generate_response, lines 100 and 113: the reconnect
RetryConnect(w) ==
    /\ pc[w] = "retry_connect"
    /\ \E ok \in BOOLEAN :
        /\ Connect(ok)
        /\ Event(w, IF ok THEN "connect_ok" ELSE "connect_fail")
        /\ pc' = [pc EXCEPT ![w] = AfterReconnect(ok)]
    /\ UNCHANGED <<req, h, args, e, ret, i, results, resp, sleeps>>

\* generate_response, lines 101-112: the second remote call
GenerateResponseRetry(w) ==
    /\ pc[w] = "predict2"
    /\ \E o \in PredictOutcomes :
        /\ Event(w, IF o = "ok" THEN "call_ok" ELSE "call_fail")
        /\ pc' = [pc EXCEPT ![w] = IF o = "ok" THEN "returned" ELSE "raised"]
        /\ ret' = [ret EXCEPT ![w] =
                     IF o = "ok" THEN RetryResult(Answer(args[w])) ELSE @]
        /\ e' = [e EXCEPT ![w] = IF o = "ok" THEN NoExc ELSE Exc(o, 2)]
    /\ UNCHANGED <<shared, req, h, args, i, results, resp, sleeps>>

\* get_lambda_data, lines 119-126
GetLambdaData(w) ==
    /\ pc[w] = "lambda_call"
    /\ \E o \in PredictOutcomes :
        /\ Event(w, IF o = "ok" THEN "call_ok" ELSE "call_fail")
        /\ pc' = [pc EXCEPT ![w] = IF o = "ok" THEN "returned" ELSE "raised"]
        /\ ret' = [ret EXCEPT ![w] = IF o = "ok" THEN Answer(args[w]) ELSE @]
        /\ e' = [e EXCEPT ![w] = IF o = "ok" THEN @ ELSE Exc(o, 1)]
    /\ UNCHANGED <<shared, req, h, args, i, results, resp, sleeps>>

-----------------------------------------------------------------------------
(* Decorators *)

\* a require_api_key that checks only a key that was provided
RequireApiKeyIfGiven(r) ==
    Truthy(apiKey) /\ Truthy(r.key) /\ r.key # apiKey

\* require_api_key, lines 148-154: TRUE when the request is answered 401
RequireApiKey(r) ==
    Truthy(apiKey) /\ (~Truthy(r.key) \/ r.key # apiKey)

Unauthorized == Resp(401, "unauthorized", None)

BadRequest == Resp(400, "bad_request", None)

\* handle_errors, lines 164-178
HandleErrors(x) ==
    IF x.kind = "ConnectionError"
    THEN Resp(503, "connection_error", [message |-> x.kind])
    ELSE Resp(500, "error", [message |-> x.kind])

-----------------------------------------------------------------------------
(* Routes: a request arrives, the handler runs up to its response or up to   *)
(* its first call of the client                                              *)

Arrive(w, R) ==
    /\ pc[w] = "idle"
    /\ \E r \in R : req' = [req EXCEPT ![w] = r]
    /\ pc' = [pc EXCEPT ![w] = "recv"]
    /\ UNCHANGED <<shared, h, args, e, ret, i, results, resp, trace, sleeps>>

Receive(w) == Arrive(w, Requests)

ReceiveThread(w) == Arrive(w, ThreadRequests)

Reply(w, r) ==
    /\ pc' = [pc EXCEPT ![w] = "done"]
    /\ resp' = [resp EXCEPT ![w] = r]
    /\ req' = [req EXCEPT ![w] = NoReq]
    /\ UNCHANGED <<shared, h, args, e, ret, i, results, trace, sleeps>>

\* the handler calls a method of gradio_client
Call(w, locals, a) ==
    /\ pc' = [pc EXCEPT ![w] = "ensure"]
    /\ h' = [h EXCEPT ![w] = locals]
    /\ args' = [args EXCEPT ![w] = a]
    /\ req' = [req EXCEPT ![w] = NoReq]
    /\ UNCHANGED <<shared, e, ret, i, results, resp, trace, sleeps>>

DataEmpty(d) == \A f \in DOMAIN d : d[f] = None

\* /generate, lines 251-256: an out-of-range value becomes the default
Validate(v, lo, hi, default) ==
    IF lo <= v.num /\ v.num <= hi THEN v ELSE Num(default)

\* float(), lines 300-302
Floatable(v) == IsNumber(v) \/ "numstr" \in DOMAIN v

Float(v) == IF IsNumber(v) THEN v ELSE Num(v.numstr)

\* /generate, lines 221-265
Generate(w) ==
    /\ pc[w] = "recv"
    /\ req[w].route = "generate"
    /\ LET r == req[w]
           d == r.data
           user_input == Or(d.user_input, d.question)
           max_length == Get(d.max_length, Num(DEFAULT_MAX_LENGTH))
           temperature == Get(d.temperature, Num(DEFAULT_TEMPERATURE))
           top_p == Get(d.top_p, Num(DEFAULT_TOP_P))
           endpoint == Get(d.endpoint, Str("/generate_response"))
           p == P(Validate(max_length, MinMaxLength, MaxMaxLength, DEFAULT_MAX_LENGTH),
                  Validate(temperature, 0, MaxTemperature, DEFAULT_TEMPERATURE),
                  Validate(top_p, 0, MaxTopP, DEFAULT_TOP_P))
       IN  IF RequireApiKey(r) THEN Reply(w, Unauthorized)
           ELSE IF DataEmpty(d) \/ ~Truthy(user_input) THEN Reply(w, BadRequest)
           ELSE IF ~(IsNumber(max_length) /\ IsNumber(temperature) /\ IsNumber(top_p))
                THEN Reply(w, HandleErrors(Exc("TypeError", 0)))
           ELSE Call(w, Locals("generate", user_input, p, endpoint, None, None),
                     Args(user_input, p.max_length, p.temperature, p.top_p,
                          endpoint.str))

\* /ask, lines 284-309
Ask(w) ==
    /\ pc[w] = "recv"
    /\ req[w].route = "ask"
    /\ LET r == req[w]
           d == r.data
           question == Or(d.question, d.q)
           max_length == Get(d.max_length, Num(DEFAULT_MAX_LENGTH))
           temperature == Get(d.temperature, Num(DEFAULT_TEMPERATURE))
           top_p == Get(d.top_p, Num(DEFAULT_TOP_P))
           p == P(Float(max_length), Float(temperature), Float(top_p))
       IN  IF RequireApiKey(r) THEN Reply(w, Unauthorized)
           ELSE IF ~Truthy(question) THEN Reply(w, BadRequest)
           ELSE IF ~(Floatable(max_length) /\ Floatable(temperature) /\ Floatable(top_p))
                THEN Reply(w, HandleErrors(Exc("ValueError", 0)))
           ELSE Call(w, Locals("ask", question, p, None, None, None),
                     Args(question, p.max_length, p.temperature, p.top_p,
                          "/generate_response"))

\* /compare, lines 322-355: up to the first of its two calls
Compare(w) ==
    /\ pc[w] = "recv"
    /\ req[w].route = "compare"
    /\ LET r == req[w]
           d == r.data
           user_input == Or(d.user_input, d.question)
           p == P(Get(d.max_length, Num(DEFAULT_MAX_LENGTH)),
                  Get(d.temperature, Num(DEFAULT_TEMPERATURE)),
                  Get(d.top_p, Num(DEFAULT_TOP_P)))
       IN  IF RequireApiKey(r) THEN Reply(w, Unauthorized)
           ELSE IF DataEmpty(d) \/ ~Truthy(user_input) THEN Reply(w, BadRequest)
           ELSE Call(w, Locals("compare", user_input, p, None, None, None),
                     Args(user_input, p.max_length, p.temperature, p.top_p,
                          "/generate_response"))

\* /sample, lines 386-394
Sample(w) ==
    /\ pc[w] = "recv"
    /\ req[w].route = "sample"
    /\ IF RequireApiKey(req[w]) THEN Reply(w, Unauthorized)
       ELSE Call(w, Locals("sample", None, P(None, None, None), None, None, None),
                 Args(None, None, None, None, "/lambda"))

\* the arguments /batch hands to generate_response for item k (lines 443-448)
BatchArgs(locals, k) ==
    Args(Str(locals.questions.list[k + 1]), locals.max_length, locals.temperature,
         locals.top_p, "/generate_response")

\* /batch, line 429: the batch is too long
TooMany(questions) == Len(questions.list) > MaxBatch

\* /batch, lines 407-448: up to the call for the first question
Batch(w) ==
    /\ pc[w] = "recv"
    /\ req[w].route = "batch"
    /\ LET r == req[w]
           d == r.data
           questions == Get(d.questions, List(<<>>))
           p == P(Get(d.max_length, Num(DEFAULT_MAX_LENGTH)),
                  Get(d.temperature, Num(DEFAULT_TEMPERATURE)),
                  Get(d.top_p, Num(DEFAULT_TOP_P)))
           delay == Get(d.delay, Num(DefaultDelay))
           locals == Locals("batch", None, p, None, questions, delay)
       IN  IF RequireApiKey(r) THEN Reply(w, Unauthorized)
           ELSE IF DataEmpty(d) THEN Reply(w, BadRequest)
           ELSE IF ~Truthy(questions) \/ ~IsList(questions) THEN Reply(w, BadRequest)
           ELSE IF TooMany(questions) THEN Reply(w, BadRequest)
           ELSE Call(w, locals, BatchArgs(locals, 0))

\* /health, lines 183-215: probes with a client of its own
Health(w) ==
    /\ pc[w] = "recv"
    /\ req[w].route = "health"
    /\ \E ok \in BOOLEAN :
        Reply(w, IF client # "None" /\ ok
                 THEN Resp(200, "healthy", [last_connected |-> last_connected])
                 ELSE Resp(503, "unhealthy", [last_connected |-> last_connected]))

-----------------------------------------------------------------------------
(* Routes: the client method has returned or raised *)

Ended(w, route) == pc[w] \in {"returned", "raised"} /\ h[w].route = route

\* the client method's frame is gone
Drop(w) ==
    /\ args' = [args EXCEPT ![w] = NoArgs]
    /\ e' = [e EXCEPT ![w] = NoExc]
    /\ ret' = [ret EXCEPT ![w] = NoRet]

Parameters(locals) ==
    P(locals.max_length, locals.temperature, locals.top_p)

\* /generate, lines 267-278, or handle_errors
GenerateReturn(w) ==
    /\ Ended(w, "generate")
    /\ pc' = [pc EXCEPT ![w] = "done"]
    /\ resp' = [resp EXCEPT ![w] =
                  IF pc[w] = "returned"
                  THEN Resp(200, "success",
                            [user_input |-> h[w].user_input, response |-> ret[w],
                             parameters |-> Parameters(h[w]),
                             endpoint |-> h[w].endpoint])
                  ELSE HandleErrors(e[w])]
    /\ Drop(w)
    /\ UNCHANGED <<shared, req, h, i, results, trace, sleeps>>

\* /ask, lines 311-316, or handle_errors
AskReturn(w) ==
    /\ Ended(w, "ask")
    /\ pc' = [pc EXCEPT ![w] = "done"]
    /\ resp' = [resp EXCEPT ![w] =
                  IF pc[w] = "returned"
                  THEN Resp(200, "success",
                            [question |-> h[w].user_input, response |-> ret[w]])
                  ELSE HandleErrors(e[w])]
    /\ Drop(w)
    /\ UNCHANGED <<shared, req, h, i, results, trace, sleeps>>

\* /sample, lines 394-401, or handle_errors
SampleReturn(w) ==
    /\ Ended(w, "sample")
    /\ pc' = [pc EXCEPT ![w] = "done"]
    /\ resp' = [resp EXCEPT ![w] =
                  IF pc[w] = "returned"
                  THEN Resp(200, "success", [sample |-> ret[w]])
                  ELSE HandleErrors(e[w])]
    /\ Drop(w)
    /\ UNCHANGED <<shared, req, h, i, results, trace, sleeps>>

\* /compare, lines 349-380: after the first call the pause and the second
\* call, after the second the response; or handle_errors
CompareReturn(w) ==
    /\ Ended(w, "compare")
    /\ IF pc[w] = "raised"
       THEN /\ pc' = [pc EXCEPT ![w] = "done"]
            /\ resp' = [resp EXCEPT ![w] = HandleErrors(e[w])]
            /\ Drop(w)
            /\ UNCHANGED <<i, results, trace, sleeps>>
       ELSE IF i[w] = 0
       THEN /\ results' = [results EXCEPT ![w] = <<ret[w]>>]
            /\ sleeps' = [sleeps EXCEPT ![w] = @ + 1]
            /\ i' = [i EXCEPT ![w] = 1]
            /\ args' = [args EXCEPT ![w] = [@ EXCEPT !.endpoint = "/generate_response_1"]]
            /\ ret' = [ret EXCEPT ![w] = NoRet]
            /\ trace' = [trace EXCEPT ![w] = <<>>]
            /\ pc' = [pc EXCEPT ![w] = "ensure"]
            /\ UNCHANGED <<resp, e>>
       ELSE /\ pc' = [pc EXCEPT ![w] = "done"]
            /\ resp' = [resp EXCEPT ![w] =
                          Resp(200, "success",
                               [user_input |-> h[w].user_input,
                                endpoint_1 |-> results[w][1], endpoint_2 |-> ret[w],
                                parameters |-> Parameters(h[w])])]
            /\ Drop(w)
            /\ UNCHANGED <<i, results, trace, sleeps>>
    /\ UNCHANGED <<shared, req, h>>

\* time.sleep raises on a negative length (ValueError) or a non-number (TypeError)
SleepRaises(delay) == ~IsNumber(delay) \/ delay.num < 0

\* /batch, line 458: whether the handler reaches time.sleep after item k of n
\* whose call has returned (TRUE) or raised (FALSE)
ReachesSleep(returned, k, n) == returned /\ k < n - 1

\* /batch, lines 450-455
SuccessItem(k, question, response) ==
    [index |-> k, question |-> question, response |-> response,
     status |-> "success"]

\* str(e), line 467: some text, whatever the exception
Message(x) == "str(e)"

\* /batch, lines 463-469
ErrorItem(k, question, x) ==
    [index |-> k, question |-> question, response |-> None,
     error |-> Message(x), status |-> "error"]

\* /batch, lines 441-482: the rest of the loop body for item i, then the next
\* item's call or the response
BatchReturn(w) ==
    /\ Ended(w, "batch")
    /\ LET n == Len(h[w].questions.list)
           k == i[w]
           question == h[w].questions.list[k + 1]
           sleep == ReachesSleep(pc[w] = "returned", k, n)
           raises == sleep /\ SleepRaises(h[w].delay)
           appended ==
               IF pc[w] = "returned"
               THEN <<SuccessItem(k, question, ret[w])>>
                    \o (IF raises
                        THEN <<ErrorItem(k, question, Exc("ValueError", 0))>>
                        ELSE <<>>)
               ELSE <<ErrorItem(k, question, e[w])>>
       IN  /\ results' = [results EXCEPT ![w] = @ \o appended]
           /\ sleeps' = [sleeps EXCEPT ![w] = IF sleep /\ ~raises THEN @ + 1 ELSE @]
           /\ IF k + 1 < n
              THEN /\ i' = [i EXCEPT ![w] = k + 1]
                   /\ args' = [args EXCEPT ![w] = BatchArgs(h[w], k + 1)]
                   /\ ret' = [ret EXCEPT ![w] = NoRet]
                   /\ e' = [e EXCEPT ![w] = NoExc]
                   /\ trace' = [trace EXCEPT ![w] = <<>>]
                   /\ pc' = [pc EXCEPT ![w] = "ensure"]
                   /\ UNCHANGED resp
              ELSE /\ pc' = [pc EXCEPT ![w] = "done"]
                   /\ resp' = [resp EXCEPT ![w] =
                                 Resp(200, "completed",
                                      [total_questions |-> n,
                                       results |-> results'[w],
                                       parameters |-> Parameters(h[w]),
                                       delay |-> h[w].delay])]
                   /\ Drop(w)
                   /\ UNCHANGED <<i, trace>>
    /\ UNCHANGED <<shared, req, h>>

\* the response is sent; the worker is free for the next request
Finish(w) ==
    /\ pc[w] = "done"
    /\ pc' = [pc EXCEPT ![w] = "idle"]
    /\ h' = [h EXCEPT ![w] = NoLocals]
    /\ args' = [args EXCEPT ![w] = NoArgs]
    /\ e' = [e EXCEPT ![w] = NoExc]
    /\ ret' = [ret EXCEPT ![w] = NoRet]
    /\ i' = [i EXCEPT ![w] = 0]
    /\ results' = [results EXCEPT ![w] = <<>>]
    /\ resp' = [resp EXCEPT ![w] = NoResp]
    /\ trace' = [trace EXCEPT ![w] = <<>>]
    /\ sleeps' = [sleeps EXCEPT ![w] = 0]
    /\ UNCHANGED <<shared, req>>

-----------------------------------------------------------------------------
(* The gateway serving one request at a time: every route, every request *)

Next ==
    \E w \in {1} :
        \/ Receive(w)
        \/ Generate(w)
        \/ Ask(w)
        \/ Compare(w)
        \/ Sample(w)
        \/ Batch(w)
        \/ Health(w)
        \/ EnsureConnection(w)
        \/ AcquireLock(w)
        \/ EnsureConnect(w)
        \/ GenerateResponseCall(w)
        \/ RetryConnect(w)
        \/ GenerateResponseRetry(w)
        \/ GetLambdaData(w)
        \/ GenerateReturn(w)
        \/ AskReturn(w)
        \/ CompareReturn(w)
        \/ SampleReturn(w)
        \/ BatchReturn(w)
        \/ Finish(w)

Spec == Init /\ [][Next]_vars

(* The session manager under concurrent requests: the workers run            *)
(* generate_response (/generate), get_lambda_data (/sample) and /health      *)

NextThreads ==
    \E w \in AllWorkers :
        \/ ReceiveThread(w)
        \/ Generate(w)
        \/ Sample(w)
        \/ Health(w)
        \/ EnsureConnection(w)
        \/ AcquireLock(w)
        \/ EnsureConnect(w)
        \/ GenerateResponseCall(w)
        \/ RetryConnect(w)
        \/ GenerateResponseRetry(w)
        \/ GetLambdaData(w)
        \/ GenerateReturn(w)
        \/ SampleReturn(w)
        \/ Finish(w)

SpecThreads == InitThreads /\ [][NextThreads]_vars

-----------------------------------------------------------------------------
(* Properties *)

InGenerateResponse(w) == h[w].route \in {"generate", "ask", "compare", "batch"}

FirstFailed == <<"call_fail">>

ReconnectFailed == <<"call_fail", "connect_fail">>

Reconnected == <<"call_fail", "connect_ok">>

RetryOk == <<"call_fail", "connect_ok", "call_ok">>

RetryFailed == <<"call_fail", "connect_ok", "call_fail">>

\* C1: bounded single retry. Past _ensure_connection, a call of
\* generate_response makes one remote call; only if that fails, one _connect;
\* only if that succeeds, one more remote call. It returns after a successful
\* call, raises the second call's exception when the retry fails and the first
\* call's exception when the reconnect fails: never more than two remote calls.
C1_BoundedSingleRetry ==
    \A w \in AllWorkers :
        InGenerateResponse(w) =>
            /\ trace[w] \in {<<>>, <<"call_ok">>, FirstFailed, ReconnectFailed,
                             Reconnected, RetryOk, RetryFailed}
            /\ pc[w] = "retry_lock" => trace[w] = FirstFailed
            /\ pc[w] = "retry_connect" => trace[w] = FirstFailed
            /\ pc[w] = "predict2" => trace[w] = Reconnected
            /\ pc[w] = "returned" => trace[w] \in {<<"call_ok">>, RetryOk}
            /\ pc[w] = "raised" =>
                   \/ trace[w] = <<>> /\ e[w] = Exc("ConnectionError", 0)
                   \/ trace[w] = ReconnectFailed /\ e[w].at = 1
                   \/ trace[w] = RetryFailed /\ e[w].at = 2

\* C1 witness: a call whose first remote call failed, whose reconnect
\* succeeded and whose second remote call failed too has raised
C1_Witness ==
    \E w \in AllWorkers :
        pc[w] = "raised" /\ InGenerateResponse(w) /\ trace[w] = RetryFailed

\* C2: retry transparency. When the first remote call fails, the reconnect
\* succeeds and the second call succeeds, generate_response returns that
\* call's result and /generate and /ask answer 200 with it, as they do when
\* the first call succeeds.
C2_RetryTransparency ==
    \A w \in AllWorkers :
        /\ (pc[w] = "returned" /\ InGenerateResponse(w)
                /\ trace[w] \in {<<"call_ok">>, RetryOk})
               => ret[w] = <<"answer", args[w].user_input, args[w].endpoint>>
        /\ (pc[w] = "done" /\ h[w].route = "generate"
                /\ trace[w] \in {<<"call_ok">>, RetryOk})
               => /\ resp[w].code = 200
                  /\ resp[w].status = "success"
                  /\ resp[w].body.response =
                         <<"answer", h[w].user_input, h[w].endpoint.str>>
        /\ (pc[w] = "done" /\ h[w].route = "ask"
                /\ trace[w] \in {<<"call_ok">>, RetryOk})
               => /\ resp[w].code = 200
                  /\ resp[w].status = "success"
                  /\ resp[w].body.response =
                         <<"answer", h[w].user_input, "/generate_response">>

\* C2 witness: /generate has answered after a retry that succeeded
C2_Witness ==
    \E w \in AllWorkers :
        pc[w] = "done" /\ h[w].route = "generate" /\ trace[w] = RetryOk

BatchDone(w) == pc[w] = "done" /\ h[w].route = "batch"

\* C3: batch failure isolation and ordering. A /batch request with 1 to 10
\* questions completes with status completed and a result list as long as the
\* input, whose k-th entry has index k and the k-th question, with status
\* success and the backend's response, or status error and an error message.
C3_BatchIsolation ==
    \A w \in AllWorkers :
        BatchDone(w) =>
            LET questions == h[w].questions.list
                out == resp[w].body.results
            IN  /\ resp[w].code = 200
                /\ resp[w].status = "completed"
                /\ resp[w].body.total_questions = Len(questions)
                /\ Len(out) = Len(questions)
                /\ \A k \in 1..Len(out) :
                    /\ out[k].index = k - 1
                    /\ out[k].question = questions[k]
                    /\ \/ /\ out[k].status = "success"
                          /\ out[k].response =
                                 <<"answer", Str(questions[k]), "/generate_response">>
                       \/ /\ out[k].status = "error"
                          /\ "error" \in DOMAIN out[k]

Protected == {"generate", "ask", "compare", "sample", "batch"}

KeyRefused(r) ==
    r.route \in Protected /\ apiKey # None /\ r.key # apiKey

TextMissing(r) ==
    \/ /\ r.route \in {"generate", "compare"}
       /\ r.data.user_input \in {None, Str("")}
       /\ r.data.question \in {None, Str("")}
    \/ /\ r.route = "ask"
       /\ r.data.question \in {None, Str("")}
       /\ r.data.q \in {None, Str("")}

BatchSizeRefused(r) ==
    /\ r.route = "batch"
    /\ \/ ~IsList(r.data.questions)
       \/ Len(r.data.questions.list) = 0
       \/ Len(r.data.questions.list) > MaxBatch

\* C4: rejection precedes any backend effect. A request refused for its key
\* (401), for its missing text (400) or for its batch size (400) is answered
\* by a step that leaves the handle, last_connected and the lock as they were
\* and starts no client method.
C4_RejectionBeforeBackend ==
    [][\A w \in AllWorkers :
         (/\ pc[w] = "recv"
          /\ pc'[w] # "recv"
          /\ KeyRefused(req[w]) \/ TextMissing(req[w]) \/ BatchSizeRefused(req[w]))
         => /\ pc'[w] = "done"
            /\ resp'[w].code = IF KeyRefused(req[w]) THEN 401 ELSE 400
            /\ client' = client
            /\ last_connected' = last_connected
            /\ connection_lock' = connection_lock
            /\ args'[w] = NoArgs
            /\ trace'[w] = <<>>]_vars

\* C4 witness: a request has been answered 401
C4_Witness ==
    \E w \in AllWorkers : pc[w] = "done" /\ resp[w].code = 401

\* C5: error surfacing after the retry. When a remote call of
\* generate_response fails and the reconnect or the second call fails too,
\* /generate, /ask and /compare answer 503.
C5_RetryFailureIs503 ==
    \A w \in AllWorkers :
        (/\ pc[w] = "done"
         /\ h[w].route \in {"generate", "ask", "compare"}
         /\ trace[w] \in {ReconnectFailed, RetryFailed})
        => resp[w].code = 503

InRange(v, lo, hi) == IsNumber(v) /\ lo <= v.num /\ v.num <= hi

\* C6: range-safe generation parameters. Whatever /generate, /ask, /compare
\* and /batch hand to generate_response has max_length in [1, 2048],
\* temperature in [0.0, 2.0] and top_p in [0.0, 1.0].
C6_RangeSafeParameters ==
    \A w \in AllWorkers :
        (InGenerateResponse(w) /\ args[w] # NoArgs)
        => /\ InRange(args[w].max_length, MinMaxLength, MaxMaxLength)
           /\ InRange(args[w].temperature, 0, MaxTemperature)
           /\ InRange(args[w].top_p, 0, MaxTopP)

\* C7: get_lambda_data retries as generate_response does. When its remote
\* call fails it calls _connect once before it gives up.
C7_SampleRetries ==
    \A w \in AllWorkers :
        (h[w].route = "sample" /\ pc[w] = "raised" /\ trace[w] # <<>>)
        => trace[w] \in {ReconnectFailed, RetryFailed}

\* C8: batch pacing. A completed batch of n questions, with a delay that
\* time.sleep accepts, has slept n - 1 times: once after every item but the
\* last, whether the item succeeded or failed.
C8_BatchPacing ==
    \A w \in AllWorkers :
        (BatchDone(w) /\ ~SleepRaises(h[w].delay))
        => sleeps[w] = Len(h[w].questions.list) - 1

InConnect(w) == pc[w] \in {"ensure_connect", "retry_connect"}

\* C9: reconnect races are harmless. No two workers are inside _connect at
\* once, and no worker in generate_response makes its remote call on an absent
\* handle (the call that raises AttributeError).
C9_RacesHarmless ==
    /\ \A v, w \in AllWorkers : (InConnect(v) /\ InConnect(w)) => v = w
    /\ \A w \in AllWorkers :
        InGenerateResponse(w) => e[w].kind # "AttributeError"

\* C10: session handle invariant. The handle is present exactly when the
\* most recently completed _connect succeeded, last_connected is present
\* exactly when some _connect has succeeded, and only a step of _connect
\* changes either: a remote call and /health leave both as they were.
C10_HandleInvariant ==
    /\ (client = "Client") = lastConnectOk
    /\ (last_connected # 0) = everConnected
    /\ [][/\ (client' = "Client") = lastConnectOk'
          /\ (last_connected' # 0) = everConnected'
          /\ (client' # client \/ last_connected' # last_connected)
                => \E w \in AllWorkers : InConnect(w) /\ ~InConnect(w)']_vars

\* C10 witness: a _connect has failed after an earlier one succeeded, and a
\* worker has then made its call
C10_Witness ==
    /\ client = "None"
    /\ last_connected # 0
    /\ \E w \in AllWorkers : pc[w] = "done"

====
